---- MODULE Spec2Model ----
(***************************************************************************)
(* Coherence-graph analysis of grafo_coherencia.py / simulacion_sic.py.    *)
(*                                                                         *)
(* Real numbers are fixed-point integers in units of 1e-9, so that 1.0 is  *)
(* Unit and the 1e-8 tolerance of compute_laplacian is ten units.  A sum   *)
(* of two grid values halved is rounded to the grid half-to-even, as IEEE  *)
(* arithmetic rounds.  A matrix is the sequence of its rows; row and node  *)
(* k of the model is index k - 1 of the program.  Loop indices and step    *)
(* numbers are the program's (from 0).                                     *)
(***************************************************************************)
EXTENDS Integers, Sequences, FiniteSets, TLC

\* 1.0
Unit == 1000000000

\* Bounds of the model.
MaxN == 3
Levels == 2
MaxSteps == 4

\* The grid step of the matrices the model starts from.
Quantum == Unit \div Levels

Idx(n) == 1 .. n

Dim(M) == Len(M)

Cells(n) == Idx(n) \X Idx(n)

Pairs(n) == { p \in Cells(n) : p[1] < p[2] }

\* The n by n matrix with f(i, j) in row i, column j (SubSeq makes TLC
\* evaluate the rows once instead of at every use).
Matrix(n, f(_, _)) ==
    SubSeq([ i \in Idx(n) |-> SubSeq([ j \in Idx(n) |-> f(i, j) ], 1, n) ], 1, n)

\* (x / 2) rounded to the grid, ties to even.
Half(x) ==
    IF x % 2 = 0 THEN x \div 2
    ELSE LET lo == (x - 1) \div 2 IN IF lo % 2 = 0 THEN lo ELSE lo + 1

\* (A + A.T) / 2
Symmetrize(A) ==
    LET avg(i, j) == Half(A[i][j] + A[j][i]) IN Matrix(Dim(A), avg)

\* np.fill_diagonal(A, v)
fill_diagonal(A, v) ==
    LET g(i, j) == IF i = j THEN v ELSE A[i][j] IN Matrix(Dim(A), g)

\* A clip that forgets the lower bound.
clip_upper_only(A, lo, hi) ==
    LET g(i, j) == IF A[i][j] > hi THEN hi ELSE A[i][j] IN Matrix(Dim(A), g)

\* np.clip(A, lo, hi)
clip(A, lo, hi) ==
    LET g(i, j) == IF A[i][j] < lo THEN lo ELSE IF A[i][j] > hi THEN hi ELSE A[i][j]
    IN Matrix(Dim(A), g)

\* A + B
MatAdd(A, B) ==
    LET g(i, j) == A[i][j] + B[i][j] IN Matrix(Dim(A), g)

IsSymmetric(M) == \A p \in Cells(Dim(M)) : M[p[1]][p[2]] = M[p[2]][p[1]]

UnitDiagonal(M) == \A i \in Idx(Dim(M)) : M[i][i] = Unit

InUnitInterval(M) == \A p \in Cells(Dim(M)) : 0 <= M[p[1]][p[2]] /\ M[p[1]][p[2]] <= Unit

IsCoherenceMatrix(M) == IsSymmetric(M) /\ UnitDiagonal(M) /\ InUnitInterval(M)

(***************************************************************************)
(* Graphs.  A graph is its node count and its weighted edges <<i, j, w>>   *)
(* with i <= j (i = j is a self-loop).                                     *)
(***************************************************************************)

\* A conversion that makes an edge of every entry, the zero ones too.
from_numpy_array_every_entry(A) ==
    [ n |-> Dim(A),
      edges |-> { <<p[1], p[2], A[p[2]][p[1]]>> :
                  p \in { q \in Cells(Dim(A)) : q[1] <= q[2] } } ]

\* nx.from_numpy_array(A) for an undirected graph: one edge per nonzero entry,
\* added row by row, so the entry below the diagonal sets the weight last.
from_numpy_array(A) ==
    [ n |-> Dim(A),
      edges |-> { <<p[1], p[2],
                    IF A[p[2]][p[1]] # 0 THEN A[p[2]][p[1]] ELSE A[p[1]][p[2]]>> :
                  p \in { q \in Cells(Dim(A)) :
                            q[1] <= q[2] /\ (A[q[1]][q[2]] # 0 \/ A[q[2]][q[1]] # 0) } } ]

\* A truncation that also drops the entries equal to the threshold.
Threshold_le(M, eps) ==
    LET g(i, j) == IF M[i][j] <= eps THEN 0 ELSE M[i][j] IN Matrix(Dim(M), g)

\* M_eff[M_eff < epsilon] = 0
Threshold(M, eps) ==
    LET g(i, j) == IF M[i][j] < eps THEN 0 ELSE M[i][j] IN Matrix(Dim(M), g)

\* A truncation that drops the entries above the threshold instead.
Truncate_above(M, eps) ==
    LET g(i, j) == IF M[i][j] > eps THEN 0 ELSE M[i][j] IN Matrix(Dim(M), g)

\* A construction that leaves the diagonal in place.
build_graph_keep_diagonal(M, eps) == from_numpy_array(Threshold(M, eps))

\* A construction that truncates the wrong side of the threshold.
build_graph_truncate_above(M, eps) ==
    from_numpy_array(fill_diagonal(Truncate_above(M, eps), 0))

\* M_eff when build_graph returns: M_eff[M_eff < epsilon] = 0;
\* np.fill_diagonal(M_eff, 0)
M_eff(M, eps) == fill_diagonal(Threshold(M, eps), 0)

\* M_eff = M: the assignments to M_eff are assignments to the caller's matrix.
ArgumentAfter_no_copy(M, eps) == M_eff(M, eps)

\* M_eff = M.copy(): the caller's matrix when build_graph(M, eps) returns.
ArgumentAfter(M, eps) == M

\* M_eff = M.copy(); M_eff[M_eff < epsilon] = 0; np.fill_diagonal(M_eff, 0);
\* G = nx.from_numpy_array(M_eff)
build_graph(M, eps) == from_numpy_array(M_eff(M, eps))

\* Whether the graph has an edge between the distinct nodes i and j.
HasEdge(G, i, j) == \E e \in G.edges : e[1] # e[2] /\ {e[1], e[2]} = {i, j}

Adjacent(G, i, j) == \E e \in G.edges : (e[1] = i /\ e[2] = j) \/ (e[1] = j /\ e[2] = i)

\* The weight of the edge between i and j, 0 when there is none.
Weight(G, i, j) ==
    IF HasEdge(G, i, j)
    THEN (CHOOSE e \in G.edges : e[1] # e[2] /\ {e[1], e[2]} = {i, j})[3]
    ELSE 0

RECURSIVE Grow(_, _)
Grow(G, S) ==
    LET T == S \cup { j \in Idx(G.n) : \E i \in S : Adjacent(G, i, j) }
    IN IF T = S THEN S ELSE Grow(G, T)

\* The component of node i.
ComponentOf(G, i) == Grow(G, {i})

Min(S) == CHOOSE x \in S : \A y \in S : x <= y

RECURSIVE ComponentsFrom(_, _)
ComponentsFrom(G, todo) ==
    IF todo = {} THEN <<>>
    ELSE LET c == ComponentOf(G, Min(todo))
         IN <<c>> \o ComponentsFrom(G, todo \ c)

\* list(nx.connected_components(G)): the components in order of first node.
connected_components(G) == ComponentsFrom(G, Idx(G.n))

RECURSIVE SortedSeq(_)
SortedSeq(S) == IF S = {} THEN <<>> ELSE <<Min(S)>> \o SortedSeq(S \ {Min(S)})

MaxOf(S) == CHOOSE x \in S : \A y \in S : y <= x

\* A giant size that counts the components instead.
GiantSize_component_count(components) == Len(components)

\* max(len(c) for c in components) if components else 0
GiantSize(components) ==
    IF components = <<>> THEN 0
    ELSE MaxOf({ Cardinality(components[k]) : k \in 1 .. Len(components) })

(***************************************************************************)
(* simulacion_sic.py: apply_friction and find_clusters.                    *)
(***************************************************************************)

\* A truncation by the rule of the docstring: entries <= epsilon become 0.
apply_friction_le(M, eps) == fill_diagonal(Threshold_le(M, eps), Unit)

\* M_eff = M.copy(); M_eff[M_eff < epsilon] = 0; np.fill_diagonal(M_eff, 1.0)
apply_friction(M, eps) == fill_diagonal(Threshold(M, eps), Unit)

\* csr_matrix(M_eff): the positions of the nonzero entries.
csr_matrix(M) == { p \in Cells(Dim(M)) : M[p[1]][p[2]] # 0 }

\* The nodes reached from S over stored entries, taken in either direction.
RECURSIVE SparseReach(_, _, _)
SparseReach(n, stored, S) ==
    LET T == S \cup { j \in Idx(n) :
                        \E i \in S : <<i, j>> \in stored \/ <<j, i>> \in stored }
    IN IF T = S THEN S ELSE SparseReach(n, stored, T)

\* connected_components(sparse, directed=False): the number of components
\* and the label of each node, components numbered from 0 in order of their
\* first node.
sparse_connected_components(n, stored) ==
    LET first(i) == Min(SparseReach(n, stored, {i}))
        firsts == { first(i) : i \in Idx(n) }
    IN [ n_clusters |-> Cardinality(firsts),
         labels |-> [ i \in Idx(n) |->
                        Cardinality({ f \in firsts : f < first(i) }) ] ]

\* sparse = csr_matrix(M_eff); connected_components(sparse, directed=False)
find_clusters(M) == sparse_connected_components(Dim(M), csr_matrix(M))

(***************************************************************************)
(* Exact arithmetic for the metrics.  A quotient is a reduced fraction      *)
(* [num, den]; a sum of distances is [q, r], standing for q + r / Unit with *)
(* 0 <= r < Unit, so that no intermediate value leaves TLC's integers.      *)
(***************************************************************************)

RECURSIVE GCD(_, _)
GCD(a, b) == IF b = 0 THEN a ELSE GCD(b, a % b)

Abs(x) == IF x < 0 THEN 0 - x ELSE x

\* num / den for den > 0, in lowest terms.
Rat(num, den) ==
    LET g == GCD(Abs(num), den)
    IN [num |-> num \div g, den |-> den \div g]

Zero == Rat(0, 1)

RatAdd(a, b) == Rat(a.num * b.den + b.num * a.den, a.den * b.den)

RatMul(a, b) ==
    LET x == Rat(a.num, b.den)
        y == Rat(b.num, a.den)
    IN Rat(x.num * y.num, x.den * y.den)

\* a / b for b > 0
RatDiv(a, b) == RatMul(a, Rat(b.den, b.num))

RatLess(a, b) == a.num * b.den < b.num * a.den

\* max(a, b)
RatMax(a, b) == IF RatLess(a, b) THEN b ELSE a

RECURSIVE RatSum(_)
\* sum(xs) for a sequence of fractions
RatSum(xs) == IF xs = <<>> THEN Zero ELSE RatAdd(Head(xs), RatSum(Tail(xs)))

DistZero == [q |-> 0, r |-> 0]

DistAdd(a, b) ==
    IF a.r + b.r >= Unit THEN [q |-> a.q + b.q + 1, r |-> a.r + b.r - Unit]
    ELSE [q |-> a.q + b.q, r |-> a.r + b.r]

DistLess(a, b) == a.q < b.q \/ (a.q = b.q /\ a.r < b.r)

(***************************************************************************)
(* Shortest paths.  The paths between two nodes are enumerated, and the     *)
(* shortest are those no other path undercuts; an edge of weight exactly    *)
(* 1.0 has distance 0 and is not among the graphs the metrics are run on.   *)
(***************************************************************************)

Last(p) == p[Len(p)]

Nodes(p) == { p[k] : k \in 1 .. Len(p) }

RECURSIVE PathsFrom(_, _, _)
\* The simple paths that extend p to the node target.
PathsFrom(G, p, target) ==
    IF Last(p) = target THEN {p}
    ELSE UNION { PathsFrom(G, Append(p, j), target) :
                 j \in { k \in Idx(G.n) \ Nodes(p) : Adjacent(G, Last(p), k) } }

SimplePaths(G, s, target) == PathsFrom(G, <<s>>, target)

\* d['distance'] = 1.0 - d['weight'] if d['weight'] > 0 else 1.0
Distance(w) == IF w > 0 THEN [q |-> 0, r |-> Unit - w] ELSE [q |-> 1, r |-> 0]

RECURSIVE PathDistance(_, _, _)
\* The sum of the distances of the edges of p from its k-th node on.
PathDistance(G, p, k) ==
    IF k >= Len(p) THEN DistZero
    ELSE DistAdd(Distance(Weight(G, p[k], p[k + 1])), PathDistance(G, p, k + 1))

\* The shortest paths from s to target by the attribute 'distance'.
ShortestByDistance(G, s, target) ==
    LET P == SimplePaths(G, s, target)
    IN { p \in P : \A o \in P : ~DistLess(PathDistance(G, o, 1), PathDistance(G, p, 1)) }

\* The shortest paths from s to target by the number of edges.
ShortestByHops(G, s, target) ==
    LET P == SimplePaths(G, s, target)
    IN { p \in P : \A o \in P : Len(o) >= Len(p) }

\* The share of the shortest paths between s and target that pass through v.
PairDependency(G, s, target, v) ==
    LET SP == ShortestByDistance(G, s, target)
    IN IF v = s \/ v = target \/ s = target \/ SP = {} THEN Zero
       ELSE Rat(Cardinality({ p \in SP : v \in Nodes(p) }), Cardinality(SP))

\* nx.betweenness_centrality(G_dist, weight='distance', normalized=True): the
\* dependencies of all ordered pairs, scaled by 1 / ((n - 1)(n - 2)) when n > 2.
betweenness_centrality(G) ==
    [ v \in Idx(G.n) |->
        LET raw == RatSum([ s \in Idx(G.n) |->
                       RatSum([ target \in Idx(G.n) |-> PairDependency(G, s, target, v) ]) ])
        IN IF G.n <= 2 THEN raw ELSE RatDiv(raw, Rat((G.n - 1) * (G.n - 2), 1)) ]

(***************************************************************************)
(* Clustering.  nx.clustering(G, weight='weight') takes the cube root of    *)
(* the product of a triangle's three weights, each divided by the largest   *)
(* weight of the graph.  The model keeps a normalised weight and a cube     *)
(* root to a resolution of 1/8, which is exact when the weights of a graph  *)
(* are its largest weight times a power of 1/8.                             *)
(***************************************************************************)

RECURSIVE IntSum(_)
IntSum(xs) == IF xs = <<>> THEN 0 ELSE Head(xs) + IntSum(Tail(xs))

\* max_weight: the largest edge weight, 1 for a graph without edges.
MaxWeight(G) == IF G.edges = {} THEN Unit ELSE MaxOf({ e[3] : e \in G.edges })

\* w / m for 0 <= w <= m, in eighths, rounded down (three binary digits).
Eighths(w, m) ==
    IF w >= m THEN 8
    ELSE LET b1 == IF 2 * w >= m THEN 1 ELSE 0
             r1 == 2 * w - b1 * m
             b2 == IF 2 * r1 >= m THEN 1 ELSE 0
             r2 == 2 * r1 - b2 * m
             b3 == IF 2 * r2 >= m THEN 1 ELSE 0
         IN 4 * b1 + 2 * b2 + b3

\* np.cbrt(x / 512), in eighths, rounded down.
cbrt(x) == CHOOSE c \in 0 .. 8 : c * c * c <= x /\ x < (c + 1) * (c + 1) * (c + 1)

\* The neighbours of node i, itself excluded.
Neighbours(G, i) == { j \in Idx(G.n) \ {i} : Adjacent(G, i, j) }

\* The triangles at node i, each once: the sum of the cube roots, in eighths.
WeightedTriangles(G, i) ==
    LET m == MaxWeight(G)
        wt(u, v) == Eighths(Weight(G, u, v), m)
    IN IntSum([ j \in Idx(G.n) |-> IntSum([ k \in Idx(G.n) |->
           IF j < k /\ {j, k} \subseteq Neighbours(G, i) /\ Adjacent(G, j, k)
           THEN cbrt(wt(i, j) * wt(j, k) * wt(k, i))
           ELSE 0 ]) ])

\* nx.clustering(G, weight='weight')[i]: 2 * triangles / (d * (d - 1)), 0 without triangles.
clustering(G, i) ==
    LET d == Cardinality(Neighbours(G, i))
        tri == WeightedTriangles(G, i)
    IN IF tri = 0 THEN Zero ELSE Rat(2 * tri, 8 * d * (d - 1))

\* nx.average_clustering(G, weight='weight'): sum(c) / len(c), which divides
\* by zero on a graph without nodes.
average_clustering(G) ==
    IF G.n = 0 THEN [raised |-> TRUE, value |-> Zero]
    ELSE [ raised |-> FALSE,
           value |-> RatDiv(RatSum([ i \in Idx(G.n) |-> clustering(G, i) ]),
                            Rat(G.n, 1)) ]

\* The sentinel float('inf').
Infinite == [is_inf |-> TRUE, total |-> DistZero, pairs |-> 0]

\* max(components, key=len): the first of the largest components.
GiantNodes(components) ==
    components[CHOOSE k \in 1 .. Len(components) :
        /\ \A j \in 1 .. Len(components) :
             Cardinality(components[j]) <= Cardinality(components[k])
        /\ \A j \in 1 .. (k - 1) :
             Cardinality(components[j]) < Cardinality(components[k])]

RECURSIVE DistSum(_)
DistSum(xs) == IF xs = <<>> THEN DistZero ELSE DistAdd(Head(xs), DistSum(Tail(xs)))

\* The distance from s to target, two connected nodes.
ShortestDistance(G, s, target) ==
    PathDistance(G, CHOOSE p \in ShortestByDistance(G, s, target) : TRUE, 1)

\* nx.average_shortest_path_length(G_giant, weight='distance'): the distances
\* of all ordered pairs over their number, kept as the two of them.
average_shortest_path_length(G, nodes) ==
    LET ns == SortedSeq(nodes)
        g == Len(ns)
    IN [ is_inf |-> FALSE,
         total |-> DistSum([ a \in 1 .. g |-> DistSum([ b \in 1 .. g |->
                       IF a = b THEN DistZero ELSE ShortestDistance(G, ns[a], ns[b]) ]) ]),
         pairs |-> g * (g - 1) ]

\* A test that also takes the path length of a single node.
HasPairs_from_one(giant_size) == giant_size >= 1

\* if result['giant_size'] > 1
HasPairs(giant_size) == giant_size > 1

\* [:5]
TopK == 5

\* An insertion that puts x before the items equal to it.
InsertDescending_before_equal(x, items) ==
    LET k == Cardinality({ j \in 1 .. Len(items) : RatLess(x.value, items[j].value) })
    IN SubSeq(items, 1, k) \o <<x>> \o SubSeq(items, k + 1, Len(items))

\* x put into the descending sequence items, after every item not smaller.
InsertDescending(x, items) ==
    LET k == Cardinality({ j \in 1 .. Len(items) : ~RatLess(items[j].value, x.value) })
    IN SubSeq(items, 1, k) \o <<x>> \o SubSeq(items, k + 1, Len(items))

RECURSIVE SortedDescending(_)
\* sorted(items, key=lambda x: x[1], reverse=True): a stable sort.
SortedDescending(items) ==
    IF items = <<>> THEN <<>>
    ELSE InsertDescending(Last(items),
                          SortedDescending(SubSeq(items, 1, Len(items) - 1)))

\* sorted(result['betweenness'].items(), ..., reverse=True)[:5]
top_bridges(betweenness) ==
    LET ranked == SortedDescending([ v \in 1 .. Len(betweenness) |->
                      [node |-> v, value |-> betweenness[v]] ])
    IN SubSeq(ranked, 1, IF Len(ranked) < TopK THEN Len(ranked) ELSE TopK)

\* compute_topology(G): raised is whether the call ended in an exception.
\* The per-node degrees and clustering of the result are not kept.
compute_topology(G) ==
    LET betweenness == betweenness_centrality(G)
        avg == average_clustering(G)
        components == connected_components(G)
        giant_size == GiantSize(components)
    IN [ raised |-> avg.raised,
         betweenness |-> betweenness,
         avg_clustering |-> avg.value,
         n_components |-> Len(components),
         giant_size |-> giant_size,
         avg_path_length |->
             IF HasPairs(giant_size)
             THEN average_shortest_path_length(G, GiantNodes(components))
             ELSE Infinite,
         top_bridges |-> top_bridges(betweenness) ]

\* The value of topo before compute_topology has returned.
NoTopology ==
    [ raised |-> FALSE, betweenness |-> <<>>, avg_clustering |-> Zero,
      n_components |-> 0, giant_size |-> 0, avg_path_length |-> Infinite,
      top_bridges |-> <<>> ]

(***************************************************************************)
(* check_small_world                                                       *)
(***************************************************************************)

\* result = {'is_small_world': False, 'sigma': 0}
NotSmallWorld == [is_small_world |-> FALSE, sigma |-> Zero]

\* np.log(g) / np.log(2), to two decimals.
Log2(g) ==
    Rat(CASE g = 1 -> 0 [] g = 2 -> 100 [] g = 3 -> 158 [] g = 4 -> 200
          [] g = 5 -> 232 [] g = 6 -> 258 [] g = 7 -> 281 [] OTHER -> 300, 100)

\* The number of edges on a shortest path between two connected nodes.
HopDistance(G, s, target) ==
    Len(CHOOSE p \in ShortestByHops(G, s, target) : TRUE) - 1

\* nx.average_shortest_path_length(G_giant): the hop distances of all ordered
\* pairs over their number.
average_hop_length(G, nodes) ==
    LET ns == SortedSeq(nodes)
        g == Len(ns)
    IN Rat(IntSum([ a \in 1 .. g |-> IntSum([ b \in 1 .. g |->
                IF a = b THEN 0 ELSE HopDistance(G, ns[a], ns[b]) ]) ]),
           g * (g - 1))

\* A verdict that declares every positive sigma small-world.
Declares_positive(sigma) == RatLess(Zero, sigma)

\* result['is_small_world'] = sigma > 1.0
Declares(sigma) == RatLess(Rat(1, 1), sigma)

\* L_random = np.log(len(giant_nodes)) / np.log(max(2, result.get('avg_degree', 2)))
\* result holds no 'avg_degree', so the divisor is np.log(2) for every graph;
\* if L_random == 0: L_random = 1
L_random(g) == IF Log2(g) = Zero THEN Rat(1, 1) ELSE Log2(g)

\* check_small_world(G, n_nodes); n_nodes is not used.
check_small_world(G) ==
    LET m == Cardinality(G.edges)
        n == G.n
        giant_nodes == GiantNodes(connected_components(G))
        g == Cardinality(giant_nodes)
        C_actual == average_clustering(G).value
        C_random == Rat(2 * m, n * (n - 1))
        L_actual == average_hop_length(G, giant_nodes)
        gamma_sw == RatDiv(C_actual, C_random)
        lambda_sw == RatDiv(L_actual, RatMax(L_random(g), Rat(1, 100)))
        sigma == RatDiv(gamma_sw, RatMax(lambda_sw, Rat(1, 100)))
    IN IF m = 0 \/ n < 4 THEN NotSmallWorld
       ELSE IF g < 4 THEN NotSmallWorld
       ELSE IF RatLess(Zero, C_random) /\ RatLess(Zero, L_actual)
            THEN [is_small_world |-> Declares(sigma), sigma |-> sigma,
                  C_ratio |-> gamma_sw, L_ratio |-> lambda_sw]
       ELSE NotSmallWorld

(***************************************************************************)
(* simulate_dynamic_graph(M_base, n_steps, epsilon, seed)                  *)
(***************************************************************************)
VARIABLES
    M_base,                 \* the matrix the caller passes
    n_steps,                \* the number of steps the caller asks for
    epsilon,                \* the threshold of the run
    M_t,                    \* the current matrix
    t,                      \* the loop index: the steps completed so far
    prev_components,        \* None, or the previous step's components
    n_components_history,   \* the component count of each step
    events,                 \* the event log
    snapshots,              \* the retained snapshots (time, M, n_components)
    pc                      \* the position in the code that is running

\* The state of the single-snapshot analysis (main's calls, one by one).
VARIABLES
    rng_draw,               \* the draw of rng.random((n, n))
    M_coh,                  \* the coherence matrix M of main
    eps_ref,                \* the threshold build_graph was called with
    G_ref,                  \* the graph build_graph returned
    topo,                   \* the result of compute_topology
    lap,                    \* the result of compute_laplacian
    perc,                   \* the locals and the result of percolation_curve
    sw                      \* the result of check_small_world

\* The generators, and the first of two runs compared.
VARIABLES
    seed,                   \* the seed the caller passes
    rng,                    \* the state of the run's own generator
    global_rng,             \* the state of the process-wide generator np.random
    first_run               \* None, or the result the first run returned

\* The state of simulacion_sic.py's main.
VARIABLES
    args_friction,               \* args.friction
    M_friction,             \* M_eff, the matrix apply_friction returned
    clusters                \* (n_clusters, labels), the result of find_clusters

\* The state of simulate_sic_v3 of conciencia_dinamica.py.
VARIABLES
    n_ticks,                \* the number of ticks the caller asks for
    world,                  \* the World: time and login_recent
    event,                  \* the event the last tick returned
    sic,                    \* the SICv3: its three layers and prevention_active
    result                  \* the dict the last cycle returned

dynVars == <<M_base, n_steps, epsilon, M_t, t, prev_components,
             n_components_history, events, snapshots>>

anaVars == <<rng_draw, M_coh, eps_ref, G_ref, topo, lap, perc, sw>>

repVars == <<seed, rng, global_rng, first_run>>

sicVars == <<args_friction, M_friction, clusters>>

conVars == <<n_ticks, world, event, sic, result>>

othVars == <<sicVars, conVars>>

vars == <<dynVars, anaVars, repVars, othVars, pc>>

\* The values of simulacion_sic.py's variables before its main runs.
SicIdle ==
    /\ args_friction = 0
    /\ M_friction = <<>>
    /\ clusters = [n_clusters |-> 0, labels |-> <<>>]

\* The event variable before the first tick.
NoEvent == [kind |-> "NONE", value |-> 0, time |-> 0]

\* The result variable before the first cycle.
NoResult ==
    [ phase |-> "DAY", friction |-> 0, action |-> "NONE", coherence |-> 0,
      prediction |-> "None", urgency |-> 0 ]

\* World.__init__
NewWorld == [time |-> 0, login_recent |-> FALSE]

\* SICv3.__init__ with the __init__ of its three layers; pain_threshold is
\* 80.0 and the synapses and the working memory are empty.
NewSIC ==
    [ phase |-> "DAY", friction_modifier |-> Unit \div 100000,
      pain_threshold |-> 80, memory |-> <<>>, buffer |-> <<>>,
      prevention_active |-> FALSE ]

\* The values of conciencia_dinamica.py's variables before simulate_sic_v3.
ConIdle ==
    /\ n_ticks = 0
    /\ world = NewWorld
    /\ event = NoEvent
    /\ sic = NewSIC
    /\ result = NoResult

OthIdle == SicIdle /\ ConIdle

None == [is_none |-> TRUE, value |-> <<>>]

Some(v) == [is_none |-> FALSE, value |-> v]

\* The symmetric unit-diagonal matrices of size n with off-diagonal entries in vals.
SymmetricMatrices(n, vals) ==
    { [ i \in Idx(n) |-> [ j \in Idx(n) |->
          IF i = j THEN Unit ELSE IF i < j THEN f[<<i, j>>] ELSE f[<<j, i>>] ] ] :
      f \in [ Pairs(n) -> vals ] }

\* The matrix of size n with v in every off-diagonal entry.
UniformMatrix(n, v) ==
    LET g(i, j) == IF i = j THEN Unit ELSE v IN Matrix(n, g)

\* The matrices a run starts from: no coherence, or full coherence, in every pair.
BaseMatrices == { UniformMatrix(n, v) : n \in 1 .. MaxN, v \in { 0, Unit } }

\* A draw of rng.normal(0, sigma, (n, n)) that is v at cell p and on the diagonal
\* and 0 elsewhere.
RawDraw(n, p, v) ==
    LET g(i, j) == IF <<i, j>> = p \/ i = j THEN v ELSE 0 IN Matrix(n, g)

\* The entries drawn: two grid steps down or up, or none, so that the
\* symmetrized perturbation moves an entry by one grid step.
NoiseVals == { 0 - 2 * Quantum, 0, 2 * Quantum }

\* The cells a noise draw can mark: those above the diagonal, or the first.
NoiseCells(n) == Pairs(n) \cup {<<1, 1>>}

\* The draws of the noise matrix: any one cell above the diagonal.
NoiseDraws(n) == { RawDraw(n, p, v) : p \in NoiseCells(n), v \in NoiseVals }

\* The draws of the drift matrix: the last cell below the diagonal.
DriftDraws(n) == { RawDraw(n, <<n, n - 1>>, v) : v \in NoiseVals }

\* noise = (noise + noise.T) / 2; np.fill_diagonal(noise, 0)
Perturbation(raw) == fill_diagonal(Symmetrize(raw), 0)

\* M_t = M_t + noise + drift; clip; unit diagonal; average with the transpose.
Evolve(M, noise, drift) ==
    Symmetrize(fill_diagonal(clip(MatAdd(MatAdd(M, noise), drift), 0, Unit), Unit))

\* An event detection with two independent tests, both logging on a change.
DetectEvent_two_entries(prev, time, n_comp) ==
    IF prev.is_none THEN <<>>
    ELSE (IF n_comp # Len(prev.value)
          THEN << [time |-> time, kind |-> "FUSION",
                   detail |-> <<Len(prev.value), n_comp>>] >>
          ELSE <<>>)
         \o (IF n_comp # Len(prev.value)
             THEN << [time |-> time, kind |-> "FISSION",
                      detail |-> <<Len(prev.value), n_comp>>] >>
             ELSE <<>>)

\* An event detection that also logs the steps that keep the count.
DetectEvent_logs_equal(prev, time, n_comp) ==
    IF prev.is_none THEN <<>>
    ELSE << [time |-> time,
             kind |-> IF n_comp < Len(prev.value) THEN "FUSION" ELSE "FISSION",
             detail |-> <<Len(prev.value), n_comp>>] >>

\* An event detection with the two comparisons exchanged.
DetectEvent_swapped(prev, time, n_comp) ==
    IF prev.is_none THEN <<>>
    ELSE IF n_comp > Len(prev.value)
         THEN << [time |-> time, kind |-> "FUSION",
                  detail |-> <<Len(prev.value), n_comp>>] >>
    ELSE IF n_comp < Len(prev.value)
         THEN << [time |-> time, kind |-> "FISSION",
                  detail |-> <<Len(prev.value), n_comp>>] >>
    ELSE <<>>

\* The event a step appends, as the sequence of events to append.
DetectEvent(prev, time, n_comp) ==
    IF prev.is_none THEN <<>>
    ELSE IF n_comp < Len(prev.value)
         THEN << [time |-> time, kind |-> "FUSION",
                  detail |-> <<Len(prev.value), n_comp>>] >>
    ELSE IF n_comp > Len(prev.value)
         THEN << [time |-> time, kind |-> "FISSION",
                  detail |-> <<Len(prev.value), n_comp>>] >>
    ELSE <<>>

\* A snapshot test that forgets the midpoint.
SnapshotDue_no_midpoint(time, steps) ==
    time = 0 \/ time = steps - 1

\* if t == 0 or t == n_steps // 2 or t == n_steps - 1
SnapshotDue(time, steps) ==
    time = 0 \/ time = steps \div 2 \/ time = steps - 1

\* A start that takes the components of M_base as the previous partition.
PrevInit_from_base(M, eps) == Some(connected_components(build_graph(M, eps)))

\* prev_components = None
PrevInit(M, eps) == None

\* epsilon: float = 0.5
DefaultEpsilon == Half(Unit)

\* A loop that stops one iteration short.
InRange_stops_early(time, steps) == time + 1 < steps

\* for t in range(n_steps): whether the loop has an iteration for index time.
InRange(time, steps) == time < steps

\* The values of the analysis variables while no analysis runs.
AnaIdle ==
    /\ rng_draw = <<>>
    /\ M_coh = <<>>
    /\ eps_ref = 0
    /\ G_ref = [n |-> 0, edges |-> {}]
    /\ topo = NoTopology
    /\ lap = [fiedler |-> 0, n_zeros |-> 0]
    /\ perc = [n_steps |-> 0, epsilons |-> <<>>, n_clusters |-> <<>>,
               giant_sizes |-> <<>>, eps_c |-> 0]
    /\ sw = NotSmallWorld

\* The values of the generator variables while no seeded run is compared.
RepIdle ==
    /\ seed = 0
    /\ rng = 0
    /\ global_rng = 0
    /\ first_run = None

DynInit ==
    /\ AnaIdle
    /\ OthIdle
    /\ RepIdle
    /\ M_base \in BaseMatrices
    /\ n_steps \in (0 - 1) .. MaxSteps
    /\ epsilon = DefaultEpsilon
    /\ M_t = M_base
    /\ t = 0
    /\ prev_components = PrevInit(M_base, epsilon)
    /\ n_components_history = <<>>
    /\ events = <<>>
    /\ snapshots = <<>>
    /\ pc = "loop"

\* The body of the for loop, for the two matrices the generator returned.
Iterate(rawNoise, rawDrift) ==
    LET M_new == Evolve(M_t, Perturbation(rawNoise), Perturbation(rawDrift))
        G == build_graph(M_new, epsilon)
        components == connected_components(G)
        n_comp == Len(components)
    IN /\ M_t' = ArgumentAfter(M_new, epsilon)
       /\ n_components_history' = Append(n_components_history, n_comp)
       /\ events' = events \o DetectEvent(prev_components, t, n_comp)
       /\ prev_components' = Some(components)
       /\ snapshots' =
            IF SnapshotDue(t, n_steps)
            THEN Append(snapshots,
                        [time |-> t, M |-> M_new, n_components |-> n_comp])
            ELSE snapshots
       /\ t' = t + 1

\* One iteration of the for loop, for any seed: any draws.
DynStep ==
    /\ pc = "loop"
    /\ InRange(t, n_steps)
    /\ \E rawNoise \in NoiseDraws(Dim(M_t)), rawDrift \in DriftDraws(Dim(M_t)) :
         Iterate(rawNoise, rawDrift)
    /\ UNCHANGED <<M_base, n_steps, epsilon, pc, anaVars, repVars, othVars>>

\* The loop is over: return.
DynReturn ==
    /\ pc = "loop"
    /\ ~InRange(t, n_steps)
    /\ pc' = "done"
    /\ UNCHANGED <<dynVars, anaVars, repVars, othVars>>

Init == DynInit

Next == DynStep \/ DynReturn

Spec == Init /\ [][Next]_vars

(***************************************************************************)
(* Two runs of simulate_dynamic_graph with the same arguments, each drawing *)
(* from its own generator np.random.default_rng(seed + 100), while other    *)
(* code of the process draws from the process-wide generator.  A generator  *)
(* is a state machine over 0 .. RngMod - 1: what it returns is a function   *)
(* of its state, and every draw advances the state.                         *)
(***************************************************************************)

\* Bounds of the generators: the number of states, and the largest seed.
RngMod == 16

MaxSeed == 2

\* seed + 100
SeedOffset == 100

\* np.random.default_rng(x): the state is a function of the seed alone.
default_rng(x) == x % RngMod

\* The state of a generator after one draw.
Advance(s) == (5 * s + 3) % RngMod

\* A generator taken from the process-wide state instead.
Generator_process_wide(sd, process_state) == process_state

\* rng = np.random.default_rng(seed + 100)
Generator(sd, process_state) == default_rng(sd + SeedOffset)

\* Whether cell p comes before cell q, row by row.
Before(p, q) == p[1] < q[1] \/ (p[1] = q[1] /\ p[2] < q[2])

\* The k-th (from 0) of the cells a noise draw can mark.
CellAt(n, k) ==
    CHOOSE p \in NoiseCells(n) :
        Cardinality({ q \in NoiseCells(n) : Before(q, p) }) = k

\* The entry a generator in state s draws.
NormalValue(s) == ((s % 3) - 1) * 2 * Quantum

\* rng.normal(0, 0.03, (n, n)) of a generator in state s.
normal_noise(n, s) ==
    RawDraw(n, CellAt(n, (s \div 3) % Cardinality(NoiseCells(n))), NormalValue(s))

\* rng.normal(0, 0.01, (n, n)) of a generator in state s.
normal_drift(n, s) == RawDraw(n, <<n, n - 1>>, NormalValue(s))

\* What a run returns.
RunResult ==
    [ snapshots |-> snapshots, n_components_history |-> n_components_history,
      events |-> events, n_steps |-> n_steps ]

RepeatInit ==
    /\ AnaIdle
    /\ OthIdle
    /\ M_base \in BaseMatrices
    /\ n_steps \in (0 - 1) .. MaxSteps
    /\ epsilon = DefaultEpsilon
    /\ seed \in 0 .. MaxSeed
    /\ global_rng = 0
    /\ rng = Generator(seed, global_rng)
    /\ first_run = None
    /\ M_t = M_base
    /\ t = 0
    /\ prev_components = PrevInit(M_base, epsilon)
    /\ n_components_history = <<>>
    /\ events = <<>>
    /\ snapshots = <<>>
    /\ pc = "loop"

\* One iteration of the for loop: the noise, then the drift, from the run's generator.
SeededStep ==
    /\ pc = "loop"
    /\ InRange(t, n_steps)
    /\ Iterate(normal_noise(Dim(M_t), rng), normal_drift(Dim(M_t), Advance(rng)))
    /\ rng' = Advance(Advance(rng))
    /\ UNCHANGED <<M_base, n_steps, epsilon, pc, anaVars, seed, global_rng, first_run, othVars>>

\* The first run has returned: the caller keeps its result and calls again
\* with the same M_base, n_steps, epsilon and seed.
RunAgain ==
    /\ pc = "done"
    /\ first_run = None
    /\ first_run' = Some(RunResult)
    /\ rng' = Generator(seed, global_rng)
    /\ M_t' = M_base
    /\ t' = 0
    /\ prev_components' = PrevInit(M_base, epsilon)
    /\ n_components_history' = <<>>
    /\ events' = <<>>
    /\ snapshots' = <<>>
    /\ pc' = "loop"
    /\ UNCHANGED <<M_base, n_steps, epsilon, anaVars, seed, global_rng, othVars>>

\* Other code of the process draws from the process-wide generator.
OtherRandomUse ==
    /\ pc \in {"loop", "done"}
    /\ global_rng' = Advance(global_rng)
    /\ UNCHANGED <<dynVars, anaVars, seed, rng, first_run, pc, othVars>>

RepeatNext == SeededStep \/ DynReturn \/ RunAgain \/ OtherRandomUse

SpecRepeat == RepeatInit /\ [][RepeatNext]_vars

(***************************************************************************)
(* The single-snapshot analysis: create_coherence_matrix, build_graph,     *)
(* compute_topology and percolation_curve, called as main calls them.      *)
(***************************************************************************)

\* Bounds of the analysis.
MaxSweep == 4

\* The entries rng.random draws, in [0, 1): 0, 1/2 and the largest below 1.
RawVals == { 0, Half(Unit), Unit - 1 }

\* The draws of rng.random((n, n)): any entries above the diagonal, one value
\* below it and one on it.
RandomDraws(n) ==
    { [ i \in Idx(n) |-> [ j \in Idx(n) |->
          IF i < j THEN f[<<i, j>>] ELSE IF i > j THEN low ELSE diag ] ] :
      f \in [ Pairs(n) -> RawVals ], low \in RawVals, diag \in RawVals }

\* A construction that leaves the diagonal as drawn.
create_without_diagonal(draw) == Symmetrize(draw)

\* M = rng.random((n, n)); M = (M + M.T) / 2; np.fill_diagonal(M, 1.0)
create_coherence_matrix(draw) == fill_diagonal(Symmetrize(draw), Unit)

\* The thresholds build_graph is called with: below 0, 0, between grid
\* values, on them, and 1.
EpsVals ==
    { 0 - Quantum, 0, Quantum \div 2, Half(Unit), Half(Unit) + 1, Unit - 1, Unit }

\* giant / n, kept exact as numerator and denominator.
Fraction(num, den) == [num |-> num, den |-> den]

\* 0.01 and 0.99
EpsLo == Unit \div 100

EpsHi == Unit - Unit \div 100

\* np.linspace(lo, hi, num): lo + k * step, the last value hi itself.
linspace(lo, hi, num) ==
    [ k \in 1 .. num |->
        IF num = 1 THEN lo
        ELSE IF k = num THEN hi
        ELSE lo + (k - 1) * ((hi - lo) \div (num - 1)) ]

\* np.diff(a)
diff(a) == [ k \in 1 .. (Len(a) - 1) |-> a[k + 1] - a[k] ]

\* An argmax that returns the last index of the largest entry.
argmax_last(a) ==
    (CHOOSE k \in 1 .. Len(a) :
        /\ \A j \in 1 .. Len(a) : a[j] <= a[k]
        /\ \A j \in (k + 1) .. Len(a) : a[j] < a[k]) - 1

\* np.argmax(a): the first index (from 0) of the largest entry.
argmax(a) ==
    (CHOOSE k \in 1 .. Len(a) :
        /\ \A j \in 1 .. Len(a) : a[j] <= a[k]
        /\ \A j \in 1 .. (k - 1) : a[j] < a[k]) - 1

\* A critical index without the offset of one.
CriticalIndex_no_offset(n_clusters) == argmax(diff(n_clusters))

\* eps_c_idx = np.argmax(deriv) + 1
CriticalIndex(n_clusters) == argmax(diff(n_clusters)) + 1

\* The values of the dynamic-run variables while no run is in progress.
DynIdle ==
    /\ M_base = <<>>
    /\ n_steps = 0
    /\ epsilon = 0
    /\ M_t = <<>>
    /\ t = 0
    /\ prev_components = None
    /\ n_components_history = <<>>
    /\ events = <<>>
    /\ snapshots = <<>>

AnaInit ==
    /\ DynIdle
    /\ OthIdle
    /\ RepIdle
    /\ \E n \in 0 .. MaxN : rng_draw \in RandomDraws(n)
    /\ M_coh = <<>>
    /\ eps_ref = 0
    /\ G_ref = [n |-> 0, edges |-> {}]
    /\ topo = NoTopology
    /\ lap = [fiedler |-> 0, n_zeros |-> 0]
    /\ perc = [n_steps |-> 0, epsilons |-> <<>>, n_clusters |-> <<>>,
               giant_sizes |-> <<>>, eps_c |-> 0]
    /\ sw = NotSmallWorld
    /\ pc = "create"

\* M = create_coherence_matrix(args.entities, args.seed)
Create ==
    /\ pc = "create"
    /\ M_coh' = create_coherence_matrix(rng_draw)
    /\ pc' = "created"
    /\ UNCHANGED <<dynVars, repVars, sw, rng_draw, eps_ref, G_ref, topo, lap, perc, othVars>>

\* G_ref = build_graph(M, args.epsilon)
BuildGraph ==
    /\ pc = "created"
    /\ \E eps \in EpsVals :
         /\ eps_ref' = eps
         /\ G_ref' = build_graph(M_coh, eps)
         /\ M_coh' = ArgumentAfter(M_coh, eps)
    /\ pc' = "built"
    /\ UNCHANGED <<dynVars, repVars, sw, rng_draw, topo, lap, perc, othVars>>

\* topo = compute_topology(G_ref); an exception leaves topo unassigned.
Topology ==
    /\ pc = "built"
    /\ LET returned == compute_topology(G_ref)
       IN IF returned.raised
          THEN topo' = topo /\ pc' = "topology_error"
          ELSE topo' = returned /\ pc' = "topology"
    /\ UNCHANGED <<dynVars, repVars, sw, rng_draw, M_coh, eps_ref, G_ref, lap, perc, othVars>>

\* perc = percolation_curve(M, n_steps): the lines before the loop.
PercStart ==
    /\ pc = "created"
    /\ \E num \in 0 .. MaxSweep :
         perc' = [ n_steps |-> num, epsilons |-> linspace(EpsLo, EpsHi, num),
                   n_clusters |-> <<>>, giant_sizes |-> <<>>, eps_c |-> 0 ]
    /\ pc' = "perc_loop"
    /\ UNCHANGED <<dynVars, repVars, sw, rng_draw, M_coh, eps_ref, G_ref, topo, lap, othVars>>

\* One iteration of the sweep; giant / n divides by zero on an empty matrix.
PercStep ==
    /\ pc = "perc_loop"
    /\ Len(perc.n_clusters) < Len(perc.epsilons)
    /\ LET eps == perc.epsilons[Len(perc.n_clusters) + 1]
           components == connected_components(build_graph(M_coh, eps))
       IN /\ M_coh' = ArgumentAfter(M_coh, eps)
          /\ IF Dim(M_coh) = 0
             THEN pc' = "perc_error" /\ perc' = perc
             ELSE /\ perc' = [ perc EXCEPT
                       !.n_clusters = Append(@, Len(components)),
                       !.giant_sizes =
                           Append(@, Fraction(GiantSize(components), Dim(M_coh))) ]
                  /\ pc' = pc
    /\ UNCHANGED <<dynVars, repVars, sw, rng_draw, eps_ref, G_ref, topo, lap, othVars>>

\* The critical threshold; np.argmax raises on an empty derivative.
PercFinish ==
    /\ pc = "perc_loop"
    /\ Len(perc.n_clusters) = Len(perc.epsilons)
    /\ IF Len(perc.n_clusters) < 2
       THEN pc' = "perc_error" /\ perc' = perc
       ELSE /\ perc' = [ perc EXCEPT
                 !.eps_c = perc.epsilons[CriticalIndex(perc.n_clusters) + 1] ]
            /\ pc' = "perc_done"
    /\ UNCHANGED <<dynVars, repVars, sw, rng_draw, M_coh, eps_ref, G_ref, topo, lap, othVars>>

AnaNext == Create \/ BuildGraph \/ Topology \/ PercStart \/ PercStep \/ PercFinish

SpecAnalysis == AnaInit /\ [][AnaNext]_vars

(***************************************************************************)
(* compute_laplacian.  The eigenvalues of a symmetric integer matrix are   *)
(* real, so Descartes' rule of signs counts exactly how many of them lie   *)
(* below a bound: no eigenvalue is computed, only determinants.  The       *)
(* determinants stay within TLC's integers for the small weights of        *)
(* SpecSpectral: coherences of a few 1e-9.                                 *)
(***************************************************************************)

\* Bound of the spectral analysis: the largest coherence, in units of 1e-9.
TinyMax == 6

\* 1e-8
TolZero == 10

\* The matrix without row r and column c.
Minor(A, r, c) ==
    [ i \in 1 .. (Len(A) - 1) |-> [ j \in 1 .. (Len(A) - 1) |->
        A[IF i < r THEN i ELSE i + 1][IF j < c THEN j ELSE j + 1] ] ]

RECURSIVE Det(_)
RECURSIVE DetExpand(_, _)

\* The first-row expansion of the determinant, columns j and after.
DetExpand(A, j) ==
    IF j > Len(A) THEN 0
    ELSE (IF j % 2 = 1 THEN 1 ELSE 0 - 1) * A[1][j] * Det(Minor(A, 1, j))
         + DetExpand(A, j + 1)

Det(A) == IF Len(A) = 0 THEN 1 ELSE DetExpand(A, 1)

\* The principal submatrix of A on the index set S.
Principal(A, S) ==
    LET ix == SortedSeq(S)
    IN [ i \in 1 .. Len(ix) |-> [ j \in 1 .. Len(ix) |-> A[ix[i]][ix[j]] ] ]

RECURSIVE SumOver(_, _)
SumOver(A, sets) ==
    IF sets = {} THEN 0
    ELSE LET S == CHOOSE x \in sets : TRUE
         IN Det(Principal(A, S)) + SumOver(A, sets \ {S})

\* The coefficients of det(x I - A), from x^n down to x^0.
CharPoly(A) ==
    [ k \in 1 .. (Len(A) + 1) |->
        (IF k % 2 = 1 THEN 1 ELSE 0 - 1) *
        SumOver(A, { S \in SUBSET Idx(Len(A)) : Cardinality(S) = k - 1 }) ]

Sign(x) == IF x > 0 THEN 1 ELSE IF x < 0 THEN 0 - 1 ELSE 0

RECURSIVE SignChanges(_, _, _)
\* The sign changes of c from index k on, last being the previous nonzero sign.
SignChanges(c, k, last) ==
    IF k > Len(c) THEN 0
    ELSE IF c[k] = 0 THEN SignChanges(c, k + 1, last)
    ELSE (IF last # 0 /\ Sign(c[k]) # last THEN 1 ELSE 0)
         + SignChanges(c, k + 1, Sign(c[k]))

\* The positive roots of a polynomial whose roots are all real.
PositiveRoots(c) == SignChanges(c, 1, 0)

RECURSIVE TrailingZeros(_, _)
TrailingZeros(c, k) ==
    IF k < 1 \/ c[k] # 0 THEN 0 ELSE 1 + TrailingZeros(c, k - 1)

\* The roots equal to 0.
ZeroRoots(c) == TrailingZeros(c, Len(c))

\* A - x I
Shifted(A, x) ==
    [ i \in 1 .. Len(A) |-> [ j \in 1 .. Len(A) |->
        IF i = j THEN A[i][j] - x ELSE A[i][j] ] ]

\* How many eigenvalues of the symmetric matrix A are < x.
EigenvaluesBelow(A, x) ==
    LET c == CharPoly(Shifted(A, x))
    IN Len(A) - PositiveRoots(c) - ZeroRoots(c)

\* How many eigenvalues of the symmetric matrix A are <= x.
EigenvaluesAtMost(A, x) ==
    LET c == CharPoly(Shifted(A, x)) IN Len(A) - PositiveRoots(c)

RECURSIVE RowSum(_, _, _)
\* The weighted degree of node i: the weights of its edges to nodes k and after.
RowSum(G, i, k) ==
    IF k > G.n THEN 0
    ELSE (IF k = i THEN 0 ELSE Weight(G, i, k)) + RowSum(G, i, k + 1)

\* nx.laplacian_matrix(G, weight='weight'): L = D - W.
laplacian_matrix(G) ==
    [ i \in Idx(G.n) |-> [ j \in Idx(G.n) |->
        IF i = j THEN RowSum(G, i, 1) ELSE 0 - Weight(G, i, j) ] ]

\* n_zeros = np.sum(np.abs(eigenvalues) < 1e-8)
CountNearZero(L) == EigenvaluesBelow(L, TolZero) - EigenvaluesAtMost(L, 0 - TolZero)

\* A bound on the eigenvalues of a Laplacian: twice its largest degree.
SpectralBound(L) == 2 * MaxOf({ L[i][i] : i \in Idx(Len(L)) } \cup {0})

\* eigenvalues[k] of the sorted spectrum (k from 0), rounded up to the grid:
\* the least x that more than k eigenvalues do not exceed.
Eigenvalue(L, k) ==
    Min({ x \in 0 .. SpectralBound(L) : EigenvaluesAtMost(L, x) > k })

\* fiedler = eigenvalues[1] if n > 1 else 0
Fiedler(L) == IF Len(L) > 1 THEN Eigenvalue(L, 1) ELSE 0

\* compute_laplacian(G): the Fiedler value and the count of near-zero eigenvalues.
compute_laplacian(G) ==
    IF G.n = 0 THEN [fiedler |-> 0, n_zeros |-> 0]
    ELSE [ fiedler |-> Fiedler(laplacian_matrix(G)),
           n_zeros |-> CountNearZero(laplacian_matrix(G)) ]

\* The coherences of the spectral analysis: none, 1e-9 and TinyMax * 1e-9.
TinyVals == { 0, 1, TinyMax }

\* The thresholds of the spectral analysis: below 0, 0, a few 1e-9, and
\* above 1.
TinyEps == { 0 - 1, 0, 1, 2, Unit + 1 }

SpectralInit ==
    /\ DynIdle
    /\ OthIdle
    /\ RepIdle
    /\ rng_draw = <<>>
    /\ \E n \in 0 .. MaxN : M_coh \in SymmetricMatrices(n, TinyVals)
    /\ eps_ref = 0
    /\ G_ref = [n |-> 0, edges |-> {}]
    /\ topo = NoTopology
    /\ lap = [fiedler |-> 0, n_zeros |-> 0]
    /\ perc = [n_steps |-> 0, epsilons |-> <<>>, n_clusters |-> <<>>,
               giant_sizes |-> <<>>, eps_c |-> 0]
    /\ sw = NotSmallWorld
    /\ pc = "created"

\* G_ref = build_graph(M, epsilon) at a threshold of a few 1e-9.
BuildGraphTiny ==
    /\ pc = "created"
    /\ \E eps \in TinyEps :
         /\ eps_ref' = eps
         /\ G_ref' = build_graph(M_coh, eps)
         /\ M_coh' = ArgumentAfter(M_coh, eps)
    /\ pc' = "built"
    /\ UNCHANGED <<dynVars, repVars, sw, rng_draw, topo, lap, perc, othVars>>

\* lap = compute_laplacian(G_ref)
Laplacian ==
    /\ pc = "topology"
    /\ lap' = compute_laplacian(G_ref)
    /\ pc' = "laplacian"
    /\ UNCHANGED <<dynVars, repVars, sw, rng_draw, M_coh, eps_ref, G_ref, topo, perc, othVars>>

SpectralNext == BuildGraphTiny \/ Topology \/ Laplacian

SpecSpectral == SpectralInit /\ [][SpectralNext]_vars

(***************************************************************************)
(* The metrics on graphs of up to MaxN + 1 nodes, and on paths and stars   *)
(* of a few nodes more.  The coherences are 0, 1/64 and 1/8, for which the  *)
(* normalised weights and their cube roots are exact.                      *)
(***************************************************************************)

CoarseLo == Unit \div 64

CoarseHi == Unit \div 8

\* The matrices of size n whose pairs among the first three nodes hold 0,
\* 1/64 or 1/8, and whose other pairs hold 0 or 1/8.
MixedMatrices(n) ==
    { A \in SymmetricMatrices(n, {0, CoarseLo, CoarseHi}) :
        \A p \in Pairs(n) : p[2] > 3 => A[p[1]][p[2]] # CoarseLo }

\* The path 1 - 2 - ... - n.
PathMatrix(n) ==
    LET g(i, j) == IF i = j THEN Unit
                   ELSE IF i = j + 1 \/ j = i + 1 THEN CoarseHi ELSE 0
    IN Matrix(n, g)

\* The star of n nodes around node c.
StarMatrix(n, c) ==
    LET g(i, j) == IF i = j THEN Unit
                   ELSE IF i = c \/ j = c THEN CoarseHi ELSE 0
    IN Matrix(n, g)

LargeSizes == (MaxN + 3) .. (MaxN + 4)

MetricMatrices ==
    UNION { MixedMatrices(n) : n \in 0 .. (MaxN + 1) }
    \cup { PathMatrix(n) : n \in LargeSizes }
    \cup UNION { { StarMatrix(n, c) : c \in Idx(n) } : n \in LargeSizes }

\* The thresholds: none, one that keeps the pairs of coherence 1/8 only, and
\* one above every coherence.
CoarseEps == { 0, CoarseHi, Unit }

MetricsInit ==
    /\ DynIdle
    /\ OthIdle
    /\ RepIdle
    /\ rng_draw = <<>>
    /\ M_coh \in MetricMatrices
    /\ eps_ref = 0
    /\ G_ref = [n |-> 0, edges |-> {}]
    /\ topo = NoTopology
    /\ lap = [fiedler |-> 0, n_zeros |-> 0]
    /\ perc = [n_steps |-> 0, epsilons |-> <<>>, n_clusters |-> <<>>,
               giant_sizes |-> <<>>, eps_c |-> 0]
    /\ sw = NotSmallWorld
    /\ pc = "created"

\* G_ref = build_graph(M, epsilon) at one of the coarse thresholds.
BuildGraphCoarse ==
    /\ pc = "created"
    /\ \E eps \in CoarseEps :
         /\ eps_ref' = eps
         /\ G_ref' = build_graph(M_coh, eps)
         /\ M_coh' = ArgumentAfter(M_coh, eps)
    /\ pc' = "built"
    /\ UNCHANGED <<dynVars, repVars, sw, rng_draw, topo, lap, perc, othVars>>

\* sw = check_small_world(G_ref, args.entities)
SmallWorld ==
    /\ pc = "built"
    /\ sw' = check_small_world(G_ref)
    /\ pc' = "small_world"
    /\ UNCHANGED <<dynVars, repVars, rng_draw, M_coh, eps_ref, G_ref, topo, lap, perc, othVars>>

MetricsNext == BuildGraphCoarse \/ Topology \/ SmallWorld

SpecMetrics == MetricsInit /\ [][MetricsNext]_vars

(***************************************************************************)
(* simulacion_sic.py's main: create_coherence_matrix (the same statements  *)
(* as in grafo_coherencia.py), apply_friction, find_clusters.              *)
(***************************************************************************)

FrictionInit == AnaInit

\* M_eff = apply_friction(M, args.friction)
ApplyFriction ==
    /\ pc = "created"
    /\ \E eps \in EpsVals :
         /\ args_friction' = eps
         /\ M_friction' = apply_friction(M_coh, eps)
    /\ pc' = "friction"
    /\ UNCHANGED <<dynVars, anaVars, repVars, conVars, clusters>>

\* n_clusters, labels = find_clusters(M_eff)
FindClusters ==
    /\ pc = "friction"
    /\ clusters' = find_clusters(M_friction)
    /\ pc' = "clusters"
    /\ UNCHANGED <<dynVars, anaVars, repVars, conVars, args_friction, M_friction>>

FrictionNext == Create \/ ApplyFriction \/ FindClusters

SpecFriction == FrictionInit /\ [][FrictionNext]_vars

(***************************************************************************)
(* conciencia_dinamica.py, part 2: World and SICv3.  Frictions, weights,   *)
(* coherences and urgencies are fixed-point numbers in units of 1e-4; a    *)
(* product is rounded to that grid.  The working memory holds events of    *)
(* which only the kind is ever read, so the model keeps their kinds.       *)
(***************************************************************************)

\* 1.0 on the 1e-4 grid.
One == Unit \div 100000

\* a * b on the grid, rounded half up.
Mul(a, b) == (a * b + One \div 2) \div One

DECAY_RATE == (2 * One) \div 100

LEARNING_RATE == (3 * One) \div 10

ACTION_THRESHOLD == (6 * One) \div 10

\* deque(maxlen=5)
BufferLen == 5

\* Event(kind, value, time)
Event(kind, value, time) == [kind |-> kind, value |-> value, time |-> time]

\* Synapse.__init__: weight 0.4
Synapse(origin, target) ==
    [origin |-> origin, target |-> target, weight |-> (4 * One) \div 10]

\* Synapse.decay: self.weight *= (1.0 - DECAY_RATE)
decay(s) == [s EXCEPT !.weight = Mul(@, One - DECAY_RATE)]

\* Synapse.reinforce: delta = LEARNING_RATE * intensity * (1.0 - self.weight)
reinforce(s, intensity) ==
    [s EXCEPT !.weight = @ + Mul(Mul(LEARNING_RATE, intensity), One - @)]

\* EnvironmentalContext.update(time)
update(time) ==
    IF time % 20 < 10
    THEN [phase |-> "DAY (High Demand)", friction_modifier |-> (12 * One) \div 10]
    ELSE [phase |-> "NIGHT (Maintenance)", friction_modifier |-> (8 * One) \div 10]

\* ReactiveContext.feel(event, env_modifier)
feel(kind, value, env_modifier, pain_threshold) ==
    LET excess == IF value - pain_threshold > 0 THEN value - pain_threshold ELSE 0
        friction == IF kind = "CPU_LOAD"
                    THEN Mul((excess * One) \div 20, env_modifier)
                    ELSE 0
    IN IF friction < One THEN friction ELSE One

\* The loop of AdaptiveContext.predict from the k-th synapse on, in the
\* insertion order of the dict.
RECURSIVE PredictFrom(_, _, _, _)
PredictFrom(memory, k, kind, best) ==
    IF k > Len(memory) THEN best
    ELSE PredictFrom(memory, k + 1, kind,
            IF memory[k].origin = kind /\ memory[k].weight > best.coherence
            THEN [prediction |-> memory[k].target, coherence |-> memory[k].weight]
            ELSE best)

\* AdaptiveContext.predict(current_event)
predict(memory, kind) ==
    PredictFrom(memory, 1, kind, [prediction |-> "None", coherence |-> 0])

\* learn, step 1: every synapse decays, and those below 0.1 are deleted.
Entropy(memory) ==
    LET decayed == [ k \in 1 .. Len(memory) |-> decay(memory[k]) ]
        alive(s) == ~(s.weight < One \div 10)
    IN SelectSeq(decayed, alive)

\* if key not in self.memory: self.memory[key] = Synapse(...);
\* self.memory[key].reinforce(strength)
ReinforceKey(memory, origin, target, strength) ==
    LET present == \E k \in 1 .. Len(memory) :
                       memory[k].origin = origin /\ memory[k].target = target
        withKey == IF present THEN memory
                   ELSE Append(memory, Synapse(origin, target))
    IN [ k \in 1 .. Len(withKey) |->
           IF withKey[k].origin = origin /\ withKey[k].target = target
           THEN reinforce(withKey[k], strength)
           ELSE withKey[k] ]

\* for past_event in self.buffer: ..., from the k-th entry on.
RECURSIVE Associate(_, _, _, _, _)
Associate(memory, buffer, k, kind, strength) ==
    IF k > Len(buffer) THEN memory
    ELSE Associate(ReinforceKey(memory, buffer[k], kind, strength),
                   buffer, k + 1, kind, strength)

\* self.buffer.append(current_event) on a deque of maxlen 5
deque_append(buffer, x) ==
    IF Len(buffer) < BufferLen THEN Append(buffer, x)
    ELSE Append(Tail(buffer), x)

\* AdaptiveContext.learn(current_event, real_friction, action_taken)
learn(memory, buffer, kind, real_friction, action_taken) ==
    LET internal_reward == action_taken = "PREVENT" /\ real_friction < One \div 10
        painful == real_friction > One \div 2
        strength == IF painful THEN One ELSE One \div 2
        entropy == Entropy(memory)
    IN [ memory |-> IF painful \/ internal_reward
                    THEN Associate(entropy, buffer, 1, kind, strength)
                    ELSE entropy,
         buffer |-> deque_append(buffer, kind) ]

\* A perception that ignores the autoscaling.
Perceived_unreduced(active, kind, value) == value

\* real_value = event.value; if self.prevention_active and
\* event.kind == "CPU_LOAD": real_value = max(0, real_value - 40)
Perceived(active, kind, value) ==
    IF active /\ kind = "CPU_LOAD"
    THEN (IF value - 40 > 0 THEN value - 40 ELSE 0)
    ELSE value

\* The emergent decision of cycle.
Decide(urgency, friction) ==
    IF urgency > ACTION_THRESHOLD
    THEN (IF friction > One \div 2 THEN "REACT (Restart)" ELSE "PREVENT (Autoscale)")
    ELSE "MONITOR"

\* A decision that leaves prevention_active alone below the threshold.
PreventionAfter_no_reset(active, urgency, friction) ==
    IF urgency > ACTION_THRESHOLD
    THEN ~(friction > One \div 2)
    ELSE active

\* self.prevention_active after the decision of cycle.
PreventionAfter(active, urgency, friction) ==
    IF urgency > ACTION_THRESHOLD
    THEN ~(friction > One \div 2)
    ELSE FALSE

\* action.split()[0]
FirstWord(action) ==
    CASE action = "REACT (Restart)" -> "REACT"
      [] action = "PREVENT (Autoscale)" -> "PREVENT"
      [] OTHER -> action

\* SICv3.cycle(event, time): the SICv3 afterwards and the dict returned.
cycle(s, ev, time) ==
    LET env == update(time)
        real_value == Perceived(s.prevention_active, ev.kind, ev.value)
        friction == feel(ev.kind, real_value, env.friction_modifier, s.pain_threshold)
        predicted == predict(s.memory, ev.kind)
        urgency == friction + Mul(predicted.coherence, (8 * One) \div 10)
        action == Decide(urgency, friction)
        learned == learn(s.memory, s.buffer, ev.kind, friction, FirstWord(action))
    IN [ sic |-> [ phase |-> env.phase,
                   friction_modifier |-> env.friction_modifier,
                   pain_threshold |-> s.pain_threshold,
                   memory |-> learned.memory,
                   buffer |-> learned.buffer,
                   prevention_active |->
                       PreventionAfter(s.prevention_active, urgency, friction) ],
         result |-> [ phase |-> env.phase, friction |-> friction,
                      action |-> action, coherence |-> predicted.coherence,
                      prediction |-> predicted.prediction, urgency |-> urgency ] ]

\* A tick that leaves login_recent set.
ClearLogin_kept(flag) == flag

\* self.login_recent = False
ClearLogin(flag) == FALSE

\* r = self.rng.random(), in tenths.
RandomTenths == 0 .. 9

\* The kind of the event a tick returns for the draw r.
TickKind(login_recent, r) ==
    IF login_recent THEN (IF r < 8 THEN "CPU_LOAD" ELSE "PING")
    ELSE IF r < 3 THEN "LOGIN"
    ELSE IF r < 6 THEN "PING"
    ELSE "IDLE"

\* The values self.rng.randint can give the event of a tick.
TickValues(login_recent, kind) ==
    IF login_recent THEN (IF kind = "CPU_LOAD" THEN 85 .. 99 ELSE 10 .. 20)
    ELSE IF kind = "LOGIN" THEN 1 .. 5
    ELSE IF kind = "PING" THEN 5 .. 15
    ELSE {0}

\* World.tick() for the draws r and value: the World afterwards and the event.
tick(w, r, value) ==
    LET kind == TickKind(w.login_recent, r)
    IN [ world |-> [ time |-> w.time + 1,
                     login_recent |-> IF w.login_recent
                                      THEN ClearLogin(w.login_recent)
                                      ELSE kind = "LOGIN" ],
         event |-> Event(kind, value, w.time + 1) ]

\* The largest number of ticks of a simulation.
MaxTicks == 6

\* sic = SICv3(); world = World(seed=seed); history = []
ConInit ==
    /\ DynIdle
    /\ AnaIdle
    /\ RepIdle
    /\ SicIdle
    /\ n_ticks \in 0 .. MaxTicks
    /\ world = NewWorld
    /\ event = NoEvent
    /\ sic = NewSIC
    /\ result = NoResult
    /\ pc = "tick"

\* event = world.tick()
Tick ==
    /\ pc = "tick"
    /\ InRange(world.time, n_ticks)
    /\ \E r \in RandomTenths :
         \E value \in TickValues(world.login_recent, TickKind(world.login_recent, r)) :
             /\ world' = tick(world, r, value).world
             /\ event' = tick(world, r, value).event
    /\ pc' = "cycle"
    /\ UNCHANGED <<dynVars, anaVars, repVars, sicVars, n_ticks, sic, result>>

\* result = sic.cycle(event, world.time)
Cycle ==
    /\ pc = "cycle"
    /\ sic' = cycle(sic, event, world.time).sic
    /\ result' = cycle(sic, event, world.time).result
    /\ pc' = "tick"
    /\ UNCHANGED <<dynVars, anaVars, repVars, sicVars, n_ticks, world, event>>

\* return history
SimReturn ==
    /\ pc = "tick"
    /\ ~InRange(world.time, n_ticks)
    /\ pc' = "sim_done"
    /\ UNCHANGED <<dynVars, anaVars, repVars, othVars>>

ConNext == Tick \/ Cycle \/ SimReturn

SpecConscious == ConInit /\ [][ConNext]_vars

(***************************************************************************)
(* Properties of simulate_dynamic_graph, checked under Spec.               *)
(***************************************************************************)

\* C1: after every step the current matrix M_t is symmetric, has every
\* diagonal entry exactly 1.0 and has every entry in [0,1], whatever the
\* noise and the drift were.
C1_MatrixInvariantAfterEveryStep ==
    t >= 1 => (IsSymmetric(M_t) /\ UnitDiagonal(M_t) /\ InUnitInterval(M_t))

\* A step has moved the matrix, and an entry sits at each end of [0,1]: the
\* perturbation that reaches it may have been clipped.
C1_Witness ==
    /\ t >= 2
    /\ M_t # M_base
    /\ \E p \in Pairs(Dim(M_t)), q \in Pairs(Dim(M_t)) :
         M_t[p[1]][p[2]] = 0 /\ M_t[q[1]][q[2]] = Unit

\* The positions in the log of the events of step s.
EventsAt(s) == { k \in 1 .. Len(events) : events[k].time = s }

\* The component count of step s (steps count from 0).
CountAt(s) == n_components_history[s + 1]

\* C3: for every step s >= 1 an event is logged at s if and only if the
\* component count at s differs from the count at s - 1; its kind is FUSION
\* exactly when the count decreased and FISSION exactly when it increased.
C3_EventIffCountChanged ==
    \A s \in 1 .. (Len(n_components_history) - 1) :
        /\ (EventsAt(s) # {}) <=> (CountAt(s) # CountAt(s - 1))
        /\ \A k \in EventsAt(s) :
             /\ (events[k].kind = "FUSION") <=> (CountAt(s) < CountAt(s - 1))
             /\ (events[k].kind = "FISSION") <=> (CountAt(s) > CountAt(s - 1))

\* A run that logged a fusion and a fission and had a step with equal counts.
C3_Witness ==
    /\ \E i, j \in 1 .. Len(events) :
         events[i].kind = "FUSION" /\ events[j].kind = "FISSION"
    /\ \E s \in 1 .. (Len(n_components_history) - 1) : CountAt(s) = CountAt(s - 1)

\* C4: the first step (t = 0) never emits an event: every event in the log
\* has step >= 1, and the log is empty after the first step.
C4_NoEventAtFirstStep ==
    /\ \A k \in 1 .. Len(events) : events[k].time >= 1
    /\ (t = 1 => events = <<>>)

\* The first step is done and its component count differs from that of M_base.
C4_Witness ==
    /\ t = 1
    /\ events = <<>>
    /\ CountAt(0) # Len(connected_components(build_graph(M_base, epsilon)))

\* The steps at which a snapshot is in the list.
SnapshotTimes == { snapshots[k].time : k \in 1 .. Len(snapshots) }

\* C10: a snapshot is retained at step s if and only if s is the first step,
\* the midpoint n_steps // 2 or the last step n_steps - 1; the list holds at
\* most 3 entries, in increasing step order, and each snapshot's n_components
\* is the history's entry of its step.
C10_SnapshotsAtFirstMidLast ==
    /\ \A s \in 0 .. (t - 1) :
         (s \in SnapshotTimes) <=>
             (s = 0 \/ s = n_steps \div 2 \/ s = n_steps - 1)
    /\ Len(snapshots) <= 3
    /\ \A k \in 1 .. (Len(snapshots) - 1) : snapshots[k].time < snapshots[k + 1].time
    /\ \A k \in 1 .. Len(snapshots) :
         /\ snapshots[k].time \in 0 .. (t - 1)
         /\ snapshots[k].n_components = CountAt(snapshots[k].time)

\* A finished run of 4 steps: snapshots at steps 0, 2 and 3, none at step 1.
C10_Witness ==
    /\ pc = "done"
    /\ n_steps = 4
    /\ SnapshotTimes = {0, 2, 3}
    /\ Len(snapshots) = 3

\* C11: simulate_dynamic_graph terminates, and for a step count n_steps >= 0
\* it returns after exactly n_steps iterations whatever the component counts
\* and the events were: on return n_components_history has n_steps entries.
\* Termination is the bounded variant: while the loop runs it can return or
\* iterate (the draws of an iteration exist), and every step either returns
\* or raises t by one within n_steps.
C11_TerminatesAfterExactlyNSteps ==
    /\ [](pc = "loop" =>
            \/ ENABLED DynReturn
            \/ /\ InRange(t, n_steps)
               /\ NoiseDraws(Dim(M_t)) # {}
               /\ DriftDraws(Dim(M_t)) # {})
    /\ [][ /\ pc = "loop" => (pc' = "done" \/ (t' = t + 1 /\ t' <= n_steps))
           /\ (pc' = "done" /\ n_steps >= 0) =>
                 (t' = n_steps /\ Len(n_components_history') = n_steps) ]_vars

\* A finished run of the most steps that logged an event before its last step.
C11_Witness ==
    /\ pc = "done"
    /\ n_steps = MaxSteps
    /\ Len(n_components_history) = MaxSteps
    /\ \E k \in 1 .. Len(events) : events[k].time < n_steps - 1

(***************************************************************************)
(* Properties of two runs with the same arguments, checked under           *)
(* SpecRepeat.                                                             *)
(***************************************************************************)

\* C12: when the second of two runs with the same M_base, n_steps, epsilon
\* and seed has returned, its event log and its component-count history are
\* those of the first run, whatever the process-wide generator did meanwhile.
C12_SameSeedSameEvents ==
    (pc = "done" /\ first_run # None) =>
        /\ events = first_run.value.events
        /\ n_components_history = first_run.value.n_components_history

\* Two finished runs that logged a fusion and a fission, with the
\* process-wide generator used meanwhile.
C12_Witness ==
    /\ pc = "done"
    /\ first_run # None
    /\ \E i, j \in 1 .. Len(events) :
         events[i].kind = "FUSION" /\ events[j].kind = "FISSION"
    /\ global_rng # 0

(***************************************************************************)
(* Properties of the single-snapshot analysis, checked under SpecAnalysis. *)
(***************************************************************************)

\* C2: for every n >= 1 and every draw, the matrix create_coherence_matrix
\* returns is symmetric, has every diagonal entry exactly 1.0 and has every
\* entry in [0,1].
C2_CreatedMatrixIsCoherenceMatrix ==
    (pc # "create" /\ Dim(M_coh) >= 1) =>
        (IsSymmetric(M_coh) /\ UnitDiagonal(M_coh) /\ InUnitInterval(M_coh))

\* A matrix made from a draw that is not symmetric and whose diagonal is not 1.
C2_Witness ==
    /\ pc = "created"
    /\ Dim(M_coh) >= 2
    /\ ~IsSymmetric(rng_draw)
    /\ ~UnitDiagonal(rng_draw)

\* Every edge between distinct nodes weighs what the matrix holds for them.
WeightsFromMatrix(G, A) ==
    \A e \in G.edges : e[1] # e[2] => e[3] = A[e[1]][e[2]]

\* C5 as stated: build_graph(M, threshold) contains edge (i,j), i # j, if and
\* only if M[i][j] >= threshold, and each edge's weight is M[i][j].
C5_Original_EdgeIffAtLeastThreshold ==
    pc = "built" =>
        /\ \A p \in Pairs(Dim(M_coh)) :
             HasEdge(G_ref, p[1], p[2]) <=> (M_coh[p[1]][p[2]] >= eps_ref)
        /\ WeightsFromMatrix(G_ref, M_coh)

\* C5 as amended: build_graph(M, threshold) contains edge (i,j), i # j, if and
\* only if M[i][j] >= threshold and M[i][j] is not 0, and each edge's weight
\* is M[i][j].
C5_EdgeIffAtLeastThresholdAndNonzero ==
    pc = "built" =>
        /\ \A p \in Pairs(Dim(M_coh)) :
             HasEdge(G_ref, p[1], p[2]) <=>
                 (M_coh[p[1]][p[2]] >= eps_ref /\ M_coh[p[1]][p[2]] # 0)
        /\ WeightsFromMatrix(G_ref, M_coh)

\* A graph built at a threshold <= 0 from a matrix with a 0 entry and a
\* positive one: the first pair has no edge, the second has.
C5_Witness ==
    /\ pc = "built"
    /\ eps_ref <= 0
    /\ \E p \in Pairs(Dim(M_coh)), q \in Pairs(Dim(M_coh)) :
         /\ M_coh[p[1]][p[2]] = 0 /\ ~HasEdge(G_ref, p[1], p[2])
         /\ M_coh[q[1]][q[2]] > 0 /\ HasEdge(G_ref, q[1], q[2])

\* C6: the graph build_graph(M, t) returns has no self-loops and every edge
\* has weight >= t.
C6_NoSelfLoopsAndWeightsAtLeastThreshold ==
    pc = "built" =>
        \A e \in G_ref.edges : e[1] # e[2] /\ e[3] >= eps_ref

\* A graph built at a positive threshold that kept an edge and dropped a
\* pair of positive coherence.
C6_Witness ==
    /\ pc = "built"
    /\ eps_ref > 0
    /\ G_ref.edges # {}
    /\ \E p \in Pairs(Dim(M_coh)) :
         M_coh[p[1]][p[2]] > 0 /\ ~HasEdge(G_ref, p[1], p[2])

\* The thresholds compared: those build_graph is called with and those of the sweeps.
ComparedThresholds ==
    EpsVals \cup
    UNION { { linspace(EpsLo, EpsHi, num)[k] : k \in 1 .. num } : num \in 1 .. MaxSweep }

EdgeCount(A, eps) == Cardinality(build_graph(A, eps).edges)

ComponentCount(A, eps) == Len(connected_components(build_graph(A, eps)))

\* C7: for thresholds t1 <= t2, build_graph(M, t2) has no more edges than
\* build_graph(M, t1) and at least as many connected components; the
\* n_clusters sequence of percolation_curve is non-decreasing along the
\* sweep and its first entry is <= its last.
C7_MonotoneInThreshold ==
    /\ pc = "created" =>
         \A t1 \in ComparedThresholds, t2 \in ComparedThresholds :
             t1 <= t2 =>
                 /\ EdgeCount(M_coh, t2) <= EdgeCount(M_coh, t1)
                 /\ ComponentCount(M_coh, t2) >= ComponentCount(M_coh, t1)
    /\ \A k \in 1 .. (Len(perc.n_clusters) - 1) :
         perc.n_clusters[k] <= perc.n_clusters[k + 1]
    /\ pc = "perc_done" =>
         perc.n_clusters[1] <= perc.n_clusters[Len(perc.n_clusters)]

\* A finished sweep whose cluster count rose twice.
C7_Witness ==
    /\ pc = "perc_done"
    /\ \E k \in 1 .. Len(perc.n_clusters) :
         /\ perc.n_clusters[1] < perc.n_clusters[k]
         /\ perc.n_clusters[k] < perc.n_clusters[Len(perc.n_clusters)]

\* The increase of the cluster count after sweep index k (from 0).
Increase(k) == perc.n_clusters[k + 2] - perc.n_clusters[k + 1]

\* C9: eps_c is the swept threshold immediately after the largest
\* single-step increase in cluster count: eps_c = epsilons[k+1] where k
\* maximises n_clusters[k+1] - n_clusters[k] over the sweep.
C9_CriticalThresholdAfterLargestIncrease ==
    pc = "perc_done" =>
        \E k \in 0 .. (Len(perc.n_clusters) - 2) :
            /\ \A j \in 0 .. (Len(perc.n_clusters) - 2) : Increase(j) <= Increase(k)
            /\ perc.eps_c = perc.epsilons[k + 2]

\* A finished sweep whose largest increase is positive, is reached at a
\* single index, and is not at the first index.
C9_Witness ==
    /\ pc = "perc_done"
    /\ \E k \in 1 .. (Len(perc.n_clusters) - 2) :
         /\ Increase(k) > 0
         /\ \A j \in 0 .. (Len(perc.n_clusters) - 2) : j # k => Increase(j) < Increase(k)
         /\ perc.eps_c = perc.epsilons[k + 2]

\* Whether no step of the sweep increases the cluster count by more than
\* the step after index k does.
LargestIncrease(k) ==
    \A j \in 0 .. (Len(perc.n_clusters) - 2) : Increase(j) <= Increase(k)

\* C25: for a matrix of at least one node and n_steps >= 2 percolation_curve
\* returns, and eps_c is the swept threshold at an index in 1 .. n_steps - 1:
\* the one after the earliest of the steps with the largest increase, so the
\* second swept threshold when the cluster count is constant; for
\* n_steps = 1 the call fails instead of returning.
C25_CriticalThresholdIndex ==
    /\ pc = "perc_done" =>
         /\ perc.n_steps >= 2
         /\ \E k \in 1 .. (perc.n_steps - 1) :
               /\ perc.eps_c = perc.epsilons[k + 1]
               /\ LargestIncrease(k - 1)
               /\ \A j \in 0 .. (k - 2) : ~LargestIncrease(j)
         /\ (\A j \in 0 .. (perc.n_steps - 2) : Increase(j) = 0) =>
               perc.eps_c = perc.epsilons[2]
    /\ (pc = "perc_error" /\ Dim(M_coh) >= 1) => perc.n_steps < 2
    /\ (pc = "perc_loop" /\ perc.n_steps = 1 /\ Len(perc.n_clusters) = 1) =>
         ~ENABLED (PercFinish /\ pc' = "perc_done")

\* A finished sweep whose largest increase is positive and is reached at two
\* steps: eps_c is the threshold after the earlier one.
C25_Witness ==
    /\ pc = "perc_done"
    /\ \E j, k \in 0 .. (perc.n_steps - 2) :
          /\ j < k
          /\ Increase(j) > 0
          /\ LargestIncrease(j)
          /\ LargestIncrease(k)
          /\ perc.eps_c = perc.epsilons[j + 2]

\* C13: invalid parameters are rejected before any computation:
\* create_coherence_matrix returns only for an entity count >= 1, build_graph
\* only for a threshold in [0,1], and simulate_dynamic_graph only for a step
\* count >= 0.
C13_InvalidParametersRejected ==
    /\ pc = "created" => Dim(rng_draw) >= 1
    /\ pc = "built" => (0 <= eps_ref /\ eps_ref <= Unit)
    /\ pc = "done" => n_steps >= 0

\* C14: on a graph with zero nodes the aggregate metric operations return
\* zero or sentinel values rather than failing: compute_topology does not
\* end in an exception on it, and neither does an iteration of the sweep of
\* percolation_curve on a 0 x 0 matrix.
C14_ZeroNodeMetricsReturnSentinels ==
    /\ G_ref.n = 0 => pc # "topology_error"
    /\ (Dim(M_coh) = 0 /\ Len(perc.n_clusters) < Len(perc.epsilons)) =>
           pc # "perc_error"

\* N * (N - 1) / 2
CompleteEdgeCount(n) == (n * (n - 1)) \div 2

\* C15 as stated: for every threshold <= 0, build_graph(M, threshold) is the
\* complete graph on N nodes without self-loops: it has N * (N - 1) / 2 edges.
C15_Original_CompleteAtNonPositiveThreshold ==
    (pc = "built" /\ eps_ref <= 0) =>
        /\ \A e \in G_ref.edges : e[1] # e[2]
        /\ Cardinality(G_ref.edges) = CompleteEdgeCount(G_ref.n)

\* C15 as amended: for every threshold <= 0, build_graph(M, threshold) has no
\* self-loops and has an edge for exactly the pairs whose entry of M is not
\* 0; it is the complete graph, with N * (N - 1) / 2 edges, when no
\* off-diagonal entry of M is exactly 0.
C15_CompleteOnNonzeroEntries ==
    (pc = "built" /\ eps_ref <= 0) =>
        /\ \A e \in G_ref.edges : e[1] # e[2]
        /\ \A p \in Pairs(Dim(M_coh)) :
             HasEdge(G_ref, p[1], p[2]) <=> (M_coh[p[1]][p[2]] # 0)
        /\ (\A p \in Pairs(Dim(M_coh)) : M_coh[p[1]][p[2]] # 0) =>
               Cardinality(G_ref.edges) = CompleteEdgeCount(G_ref.n)

\* A graph of three nodes built at a threshold below 0 from a matrix without
\* a 0 entry: it has its three edges.
C15_Witness ==
    /\ pc = "built"
    /\ eps_ref < 0
    /\ G_ref.n = 3
    /\ \A p \in Pairs(Dim(M_coh)) : M_coh[p[1]][p[2]] # 0
    /\ Cardinality(G_ref.edges) = 3

\* Whether the threshold eps is greater than every off-diagonal entry of A.
AboveAllEntries(A, eps) == \A p \in Pairs(Dim(A)) : A[p[1]][p[2]] < eps

\* C16: when the threshold is greater than every off-diagonal entry of M
\* (N >= 1), build_graph yields N isolated nodes and no edge: compute_topology
\* reports N components, a giant component of size 1 and average clustering
\* 0, and the sweep records N clusters and the giant fraction 1 / N.
C16_IsolatedNodesAboveAllEntries ==
    /\ (pc \in {"built", "topology"} /\ AboveAllEntries(M_coh, eps_ref)) =>
           G_ref = [n |-> Dim(M_coh), edges |-> {}]
    /\ (pc = "topology" /\ AboveAllEntries(M_coh, eps_ref)) =>
           /\ topo.n_components = Dim(M_coh)
           /\ topo.giant_size = 1
           /\ topo.avg_clustering = Zero
    /\ \A k \in 1 .. Len(perc.n_clusters) :
           AboveAllEntries(M_coh, perc.epsilons[k]) =>
               /\ perc.n_clusters[k] = Dim(M_coh)
               /\ perc.giant_sizes[k] = Fraction(1, Dim(M_coh))

\* The metrics of three nodes isolated by a threshold that dropped a pair of
\* positive coherence.
C16_Witness ==
    /\ pc = "topology"
    /\ Dim(M_coh) = 3
    /\ AboveAllEntries(M_coh, eps_ref)
    /\ \E p \in Pairs(Dim(M_coh)) : M_coh[p[1]][p[2]] > 0
    /\ topo.n_components = 3

\* C17: build_graph leaves its input matrix unchanged, diagonal and
\* sub-threshold entries included: after any number of calls M is still the
\* matrix create_coherence_matrix returned, and a second call with the same
\* matrix and threshold yields the nodes and weighted edges of the first.
C17_BuildGraphLeavesMatrixUnchanged ==
    /\ pc # "create" => M_coh = create_coherence_matrix(rng_draw)
    /\ pc \in {"built", "topology"} => build_graph(M_coh, eps_ref) = G_ref

\* A graph built at a threshold that dropped a pair of positive coherence:
\* M_eff differs from M in that entry and on the diagonal.
C17_Witness ==
    /\ pc = "built"
    /\ Dim(M_coh) >= 2
    /\ \E p \in Pairs(Dim(M_coh)) :
         M_coh[p[1]][p[2]] > 0 /\ M_eff(M_coh, eps_ref)[p[1]][p[2]] = 0
    /\ UnitDiagonal(M_coh)

(***************************************************************************)
(* Properties of the metrics, checked under SpecMetrics.                   *)
(***************************************************************************)

\* The nodes listed in top_bridges.
BridgeNodes == { topo.top_bridges[k].node : k \in 1 .. Len(topo.top_bridges) }

\* C18: top_bridges lists min(5, N) distinct nodes with their betweenness,
\* in non-increasing order of betweenness, nodes of equal betweenness in
\* ascending node index, and no node left out has a higher betweenness than
\* a listed one.
C18_TopBridgesHighestFirst ==
    pc = "topology" =>
        /\ Len(topo.top_bridges) = IF G_ref.n < 5 THEN G_ref.n ELSE 5
        /\ Cardinality(BridgeNodes) = Len(topo.top_bridges)
        /\ \A k \in 1 .. Len(topo.top_bridges) :
             /\ topo.top_bridges[k].node \in Idx(G_ref.n)
             /\ topo.top_bridges[k].value = topo.betweenness[topo.top_bridges[k].node]
             /\ \A u \in Idx(G_ref.n) \ BridgeNodes :
                  ~RatLess(topo.top_bridges[k].value, topo.betweenness[u])
        /\ \A k \in 1 .. (Len(topo.top_bridges) - 1) :
             /\ ~RatLess(topo.top_bridges[k].value, topo.top_bridges[k + 1].value)
             /\ topo.top_bridges[k].value = topo.top_bridges[k + 1].value =>
                  topo.top_bridges[k].node < topo.top_bridges[k + 1].node

\* The bridges of a graph of more than 5 nodes: two listed nodes tie at a
\* positive betweenness, below the first of the list, and the first is not
\* node 1.
C18_Witness ==
    /\ pc = "topology"
    /\ G_ref.n > 5
    /\ topo.top_bridges[1].node # 1
    /\ \E k \in 2 .. 4 :
         /\ topo.top_bridges[k].value = topo.top_bridges[k + 1].value
         /\ RatLess(Zero, topo.top_bridges[k].value)
         /\ RatLess(topo.top_bridges[k].value, topo.top_bridges[1].value)

\* Whether check_small_world takes the graph for degenerate: no edge, fewer
\* than 4 nodes, or a giant component of fewer than 4 nodes.
Degenerate(G) ==
    \/ G.edges = {}
    \/ G.n < 4
    \/ \A k \in 1 .. Len(connected_components(G)) :
          Cardinality(connected_components(G)[k]) < 4

\* C19: check_small_world returns is_small_world = False with sigma = 0 in
\* every degenerate case, and in every other case is_small_world is True
\* exactly when sigma > 1.0.
C19_SmallWorldVerdict ==
    pc = "small_world" =>
        IF Degenerate(G_ref)
        THEN sw.is_small_world = FALSE /\ sw.sigma = Zero
        ELSE sw.is_small_world <=> RatLess(Rat(1, 1), sw.sigma)

\* A graph that is not degenerate with a positive sigma that is not above 1.
C19_Witness ==
    /\ pc = "small_world"
    /\ ~Degenerate(G_ref)
    /\ RatLess(Zero, sw.sigma)
    /\ ~RatLess(Rat(1, 1), sw.sigma)
    /\ sw.is_small_world = FALSE

\* The mean degree of a graph with nodes.
MeanDegree(G) == Rat(2 * Cardinality(G.edges), G.n)

\* The reference path length behind a result: L_actual over L_ratio.
RandomReference ==
    RatDiv(average_hop_length(G_ref, GiantNodes(connected_components(G_ref))),
           sw.L_ratio)

\* C21: the random-graph reference path length is ln(n) / ln(meanDegree) of
\* the evaluated graph, so for a mean degree above 2 it is below
\* ln(n) / ln(2), and differs between graphs of one giant size and different
\* mean degrees.
C21_RandomReferenceUsesMeanDegree ==
    (pc = "small_world" /\ ~Degenerate(G_ref)
        /\ RatLess(Rat(2, 1), MeanDegree(G_ref))) =>
        RatLess(RandomReference,
                Log2(Cardinality(GiantNodes(connected_components(G_ref)))))

\* C24: every edge of a graph build_graph makes of a coherence matrix with
\* entries in [0,1] has a weight above 0, so the distance transform of
\* compute_topology never takes its clamp value 1.0: every edge distance is
\* 1 - weight and lies in [0,1).
C24_EdgeWeightsPositive ==
    (pc \in {"built", "topology"} /\ InUnitInterval(M_coh)) =>
        \A e \in G_ref.edges :
            /\ e[3] > 0
            /\ Distance(e[3]) = [q |-> 0, r |-> Unit - e[3]]
            /\ 0 <= Unit - e[3]
            /\ Unit - e[3] < Unit

\* A topology computed at a threshold that truncates nothing, of a matrix
\* with an entry 0 and a positive entry below 1.
C24_Witness ==
    /\ pc = "topology"
    /\ eps_ref <= 0
    /\ \E p \in Pairs(Dim(M_coh)) : M_coh[p[1]][p[2]] = 0
    /\ \E e \in G_ref.edges : e[3] < Unit

(***************************************************************************)
(* Further properties of simulate_dynamic_graph, checked under Spec.       *)
(***************************************************************************)

\* The partition of the nodes a snapshot was taken at.
PartitionOf(snap) ==
    { c : c \in { ComponentOf(build_graph(snap.M, epsilon), i) :
                    i \in Idx(Dim(snap.M)) } }

\* C23: event detection compares component counts only: a step after the
\* first appends an event exactly when its component count differs from the
\* previous step's, so a step that changes the partition and keeps the
\* count logs nothing, like a step without any change.
C23_EventsCompareCountsOnly ==
    [][(pc = "loop" /\ t' = t + 1 /\ ~prev_components.is_none) =>
          ((events' = events)
              <=> (Len(prev_components'.value) = Len(prev_components.value)))]_vars

\* Two snapshots of consecutive steps with different partitions of the same
\* size, and no event at the later step.
C23_Witness ==
    \E k \in 1 .. (Len(snapshots) - 1) :
        /\ snapshots[k + 1].time = snapshots[k].time + 1
        /\ snapshots[k + 1].n_components = snapshots[k].n_components
        /\ PartitionOf(snapshots[k + 1]) # PartitionOf(snapshots[k])
        /\ \A j \in 1 .. Len(events) : events[j].time # snapshots[k + 1].time

\* C26: the event log is ordered by strictly increasing step, so it holds at
\* most one event per step; every event step lies in 1 .. n_steps - 1; the
\* log has at most max(0, n_steps - 1) entries and is empty for
\* n_steps <= 1.
C26_EventLogOrderedAndBounded ==
    /\ \A k \in 1 .. (Len(events) - 1) : events[k].time < events[k + 1].time
    /\ \A k \in 1 .. Len(events) : events[k].time \in 1 .. (n_steps - 1)
    /\ Len(events) <= (IF n_steps - 1 > 0 THEN n_steps - 1 ELSE 0)
    /\ (n_steps <= 1 => events = <<>>)

\* A finished run of at least 3 steps with an event at every step after the
\* first.
C26_Witness ==
    /\ pc = "done"
    /\ n_steps >= 3
    /\ Len(events) = n_steps - 1

(***************************************************************************)
(* Properties of compute_laplacian, checked under SpecSpectral.            *)
(***************************************************************************)

\* C20: for the N = 1 matrix [[1.0]] and any threshold, compute_topology
\* reports 1 cluster and the infinite sentinel for the average path length
\* and compute_laplacian reports the Fiedler value 0; and whenever the giant
\* component has at most 1 node the average path length is the sentinel.
C20_SingleNodeAndNoPairs ==
    /\ (pc \in {"topology", "laplacian"} /\ M_coh = << <<Unit>> >>) =>
           (topo.n_components = 1 /\ topo.avg_path_length = Infinite)
    /\ (pc = "laplacian" /\ M_coh = << <<Unit>> >>) => lap.fiedler = 0
    /\ (pc \in {"topology", "laplacian"} /\ topo.giant_size <= 1) =>
           topo.avg_path_length = Infinite

\* The metrics of the matrix [[1.0]] at a threshold above 1.
C20_Witness ==
    /\ pc = "laplacian"
    /\ M_coh = << <<Unit>> >>
    /\ eps_ref > Unit
    /\ topo.giant_size = 1

\* C8: for every graph build_graph produces, the n_zeros value of
\* compute_laplacian (the number of Laplacian eigenvalues of absolute value
\* below 1e-8) equals the n_components of compute_topology.
C8_NearZeroCountIsComponentCount ==
    pc = "laplacian" => lap.n_zeros = topo.n_components

(***************************************************************************)
(* Properties of apply_friction and find_clusters, checked under           *)
(* SpecFriction.                                                           *)
(***************************************************************************)

\* C22: apply_friction maps every off-diagonal entry by the documented rule,
\* M_eff[i][j] = M[i][j] if M[i][j] > epsilon and 0 if M[i][j] <= epsilon,
\* and every diagonal entry of the result is 1.0.
C22_FrictionByDocumentedRule ==
    pc \in {"friction", "clusters"} =>
        \A p \in Cells(Dim(M_coh)) :
            M_friction[p[1]][p[2]] =
                IF p[1] = p[2] THEN Unit
                ELSE IF M_coh[p[1]][p[2]] > args_friction THEN M_coh[p[1]][p[2]]
                ELSE 0

\* Whether two nodes lie in one component of build_graph(M, friction).
SameComponent(i, j) == j \in ComponentOf(build_graph(M_coh, args_friction), i)

C28_LoginThenLoadOrPing ==
    [][(pc = "tick" /\ pc' = "cycle") =>
          /\ world'.time = world.time + 1
          /\ event.kind = "LOGIN" => event'.kind \in {"CPU_LOAD", "PING"}
          /\ event'.kind = "CPU_LOAD" => event.kind = "LOGIN"]_vars

\* A CPU_LOAD returned by the fourth tick or a later one.
C28_Witness ==
    /\ event.kind = "CPU_LOAD"
    /\ world.time >= 4
    /\ ~world.login_recent

\* C29: after every cycle prevention_active is True if and only if the
\* action the cycle returned is PREVENT (Autoscale); the action is REACT
\* exactly when urgency > ACTION_THRESHOLD and friction > 0.5, PREVENT
\* exactly when urgency > ACTION_THRESHOLD and friction <= 0.5, and MONITOR
\* otherwise.
C29_PreventionActiveIffPrevent ==
    result # NoResult =>
        /\ sic.prevention_active <=> (result.action = "PREVENT (Autoscale)")
        /\ (result.action = "REACT (Restart)") <=>
               (result.urgency > ACTION_THRESHOLD /\ result.friction > One \div 2)
        /\ (result.action = "PREVENT (Autoscale)") <=>
               (result.urgency > ACTION_THRESHOLD /\ result.friction <= One \div 2)
        /\ (result.action = "MONITOR") <=> ~(result.urgency > ACTION_THRESHOLD)
        /\ result.action \in {"REACT (Restart)", "PREVENT (Autoscale)", "MONITOR"}

\* A cycle that returned PREVENT (Autoscale) on a LOGIN it had learnt to be
\* followed by load.
C29_Witness ==
    /\ pc = "tick"
    /\ result.action = "PREVENT (Autoscale)"
    /\ sic.prevention_active
    /\ event.kind = "LOGIN"
    /\ result.friction = 0
    /\ result.coherence > (3 * One) \div 4

\* C30: the cycle right after a PREVENT action perceives friction 0 and so
\* never returns REACT: REACT never directly follows PREVENT.
C30_NoReactRightAfterPrevent ==
    [][(pc = "cycle" /\ pc' = "tick" /\ result.action = "PREVENT (Autoscale)") =>
          (result'.friction = 0 /\ result'.action # "REACT (Restart)")]_vars

\* The cycle after a PREVENT, on a CPU_LOAD of 99: no friction.
C30_Witness ==
    /\ pc = "tick"
    /\ event.kind = "CPU_LOAD"
    /\ event.value = 99
    /\ result.friction = 0
    /\ result.action # "REACT (Restart)"

====
